---------------------------- MODULE Spec2Model ----------------------------
(***************************************************************************)
(* A model of the recipe-chatbot repository:                               *)
(*   - backend/utils.py: get_agent_response, the conversation pipeline;    *)
(*   - homeworks/hw2/hw2_v1/synthetic_query_gen.py: the synthetic-query    *)
(*     generator run (main) and its two output writers.                    *)
(* Python lists are objects with identity: the chat part keeps a heap of   *)
(* list objects so that aliasing and in-place mutation are visible.        *)
(* Text is a sequence of one-character strings wherever the code formats,  *)
(* trims or parses it.                                                     *)
(***************************************************************************)
EXTENDS Integers, Sequences, FiniteSets, TLC

VARIABLES
    \* ---- backend/utils.py ----
    heap,          \* the list objects: heap[r] is the content of list r
    messages,      \* the caller's history list (a reference into heap)
    updated,       \* the list get_agent_response returned (0: none)
    sent,          \* the conversation handed to litellm.completion
    rawReply,      \* the reply text of the model, before .strip()
    preHeap,       \* the heap at the moment of the last call
    status,        \* "ready" | "returned" | "raised"
    calls,         \* number of get_agent_response calls made
    start,         \* the history the conversation started from
    \* ---- synthetic_query_gen.py ----
    pc,            \* position of the run
    fs,            \* the file system: the output folder and the files
    fs0,           \* the file system before the run
    yaml,          \* the prompt file: [exists, data]
    prompts,       \* main's tuple_prompt and query_prompt
    tuple_data,    \* the RecipeDimensionsList of main (Unset before)
    all_queries,   \* the accumulator of generate_synthetic_queries
    queries_data,  \* the SyntheticQueriesList returned / handed to the writer
    idx,           \* number of tuples generate_synthetic_queries has done
    invocations,   \* the call_llm invocations, in order: the prompt of each
    providerCalls, \* number of completion() calls made to the provider
    replies,       \* the parsed reply of each successful query call
    console,       \* the error lines printed
    error,         \* the exception that ended the run or the call ("" : none)
    target,        \* the path the last writer call was given
    written,       \* the content the last writer call rendered
    readBack       \* the rows csv.reader yields from the queries file

chatVars == <<heap, messages, updated, sent, rawReply, preHeap, status, calls, start>>
genVars  == <<pc, fs, fs0, yaml, prompts, tuple_data, all_queries, queries_data, idx,
              invocations, providerCalls, replies, console, error, target,
              written, readBack>>
vars == <<chatVars, genVars>>

-----------------------------------------------------------------------------
(* Bounds of the model.                                                    *)
MaxHistory == 2     \* length of the history a conversation starts from
MaxCalls == 2       \* get_agent_response calls in one conversation
MaxAppend == 1      \* user messages the caller appends between two calls
MaxTuples == 2      \* tuples the gateway returns for the dimension call
MaxPerCall == 2     \* queries the gateway returns for one tuple
MaxQueries == 2     \* length of a QuerySet handed directly to the writer
MaxLongRun == 11    \* length of the longest (uniform) QuerySet written

-----------------------------------------------------------------------------
(* Generic helpers.                                                        *)
SeqsUpTo(S, n) == UNION {[1..k -> S] : k \in 0..n}

RECURSIVE Flatten(_)
Flatten(ss) == IF ss = <<>> THEN <<>> ELSE Head(ss) \o Flatten(Tail(ss))

-----------------------------------------------------------------------------
(* backend/utils.py                                                        *)

SYSTEM_PROMPT == <<"persona">>
Whitespace == {" ", "\n"}

Msg(r, c) == [role |-> r, content |-> c]

\* The messages a caller's history is drawn from: a system message may carry
\* the persona or the caller's own text, and user text may equal the persona.
InitialMessages ==
    { Msg("system", SYSTEM_PROMPT), Msg("system", <<"c","u","s","t","o","m">>),
      Msg("user", <<"h","i">>), Msg("assistant", <<"o","k">>) }
UserMessages == { Msg("user", <<"h","i">>), Msg("user", SYSTEM_PROMPT) }
\* The raw reply texts completion() may carry.
RawReplies == { <<>>, <<" ">>, <<"o","k">>, <<" ","o"," ","k","\n">> }

\* str.strip(): leading and trailing whitespace removed.
RECURSIVE LStrip(_)
LStrip(s) == IF s # <<>> /\ Head(s) \in Whitespace THEN LStrip(Tail(s)) ELSE s
RECURSIVE RStrip(_)
RStrip(s) ==
    IF s # <<>> /\ s[Len(s)] \in Whitespace THEN RStrip(SubSeq(s, 1, Len(s) - 1)) ELSE s
Strip(s) == RStrip(LStrip(s))

\* list.__add__: a new list object holding xs then ys; the operands stay.
ListConcat(h, xs, ys) == [heap |-> Append(h, xs \o ys), ref |-> Len(h) + 1]

\* Mutants of NeedsSystemPrompt.
NeedsSystemPromptAlways(h, m) == TRUE
NeedsSystemPromptOnlyWhenEmpty(h, m) == h[m] = <<>>
\* utils.py:68, the test that decides the injection.
NeedsSystemPrompt(h, m) == h[m] = <<>> \/ h[m][1].role # "system"

\* Mutant of EnsureSystemPrompt: the persona is appended, not prepended.
EnsureSystemPromptAtEnd(h, m) ==
    IF NeedsSystemPrompt(h, m)
    THEN ListConcat(h, h[m], <<Msg("system", SYSTEM_PROMPT)>>)
    ELSE [heap |-> h, ref |-> m]
\* utils.py:67-71: current_messages is a new list with the persona in front,
\* or the caller's own list (an alias).
EnsureSystemPrompt(h, m) ==
    IF NeedsSystemPrompt(h, m)
    THEN ListConcat(h, <<Msg("system", SYSTEM_PROMPT)>>, h[m])
    ELSE [heap |-> h, ref |-> m]

\* Mutant of AppendReply: current_messages.append(...), in place.
AppendReplyInPlace(h, cur, raw) ==
    [heap |-> [h EXCEPT ![cur] = Append(@, Msg("assistant", Strip(raw)))], ref |-> cur]
\* utils.py:78-85: the reply is trimmed and a new list is built from
\* current_messages and the assistant message.
AppendReply(h, cur, raw) ==
    ListConcat(h, h[cur], <<Msg("assistant", Strip(raw))>>)

\* utils.py:50-85, a call that returns: completion() answered with raw.
get_agent_response(raw) ==
    /\ status \in {"ready", "raised"}
    /\ calls < MaxCalls
    /\ LET cur == EnsureSystemPrompt(heap, messages)
           out == AppendReply(cur.heap, cur.ref, raw)
       IN  /\ sent' = cur.heap[cur.ref]
           /\ heap' = out.heap
           /\ updated' = out.ref
    /\ rawReply' = raw
    /\ preHeap' = heap
    /\ status' = "returned"
    /\ calls' = calls + 1
    /\ UNCHANGED <<messages, start>>
    /\ UNCHANGED genVars

\* utils.py:67-76, a call in which completion() raises: the exception leaves
\* get_agent_response, nothing is returned.
get_agent_response_raises ==
    /\ status \in {"ready", "raised"}
    /\ calls < MaxCalls
    /\ LET cur == EnsureSystemPrompt(heap, messages)
       IN  /\ sent' = cur.heap[cur.ref]
           /\ heap' = cur.heap
    /\ updated' = 0
    /\ rawReply' = <<>>
    /\ preHeap' = heap
    /\ status' = "raised"
    /\ calls' = calls + 1
    /\ UNCHANGED <<messages, start>>
    /\ UNCHANGED genVars

\* The caller between two turns: the returned list becomes the history, with
\* zero or more user messages appended to it.
CallerNextTurn(us) ==
    /\ status = "returned"
    /\ calls < MaxCalls
    /\ heap' = [heap EXCEPT ![updated] = @ \o us]
    /\ messages' = updated
    /\ updated' = 0
    /\ status' = "ready"
    /\ UNCHANGED <<sent, rawReply, preHeap, calls, start>>
    /\ UNCHANGED genVars

ChatInit ==
    /\ \E h \in SeqsUpTo(InitialMessages, MaxHistory) :
          /\ heap = <<h>>
          /\ start = h
    /\ messages = 1
    /\ updated = 0
    /\ sent = <<>>
    /\ rawReply = <<>>
    /\ preHeap = <<>>
    /\ status = "ready"
    /\ calls = 0

ChatIdle ==
    /\ heap = <<>> /\ start = <<>> /\ messages = 0 /\ updated = 0
    /\ sent = <<>> /\ rawReply = <<>> /\ preHeap = <<>> /\ status = "idle"
    /\ calls = 0

ChatNext ==
    \/ \E raw \in RawReplies : get_agent_response(raw)
    \/ get_agent_response_raises
    \/ \E us \in SeqsUpTo(UserMessages, MaxAppend) : CallerNextTurn(us)

-----------------------------------------------------------------------------
(* synthetic_query_gen.py: data                                            *)

NUM_TUPLES_TO_GENERATE == 15
NNUM_QUERIES_PER_TUPLE == 7

RecipeDimensionTuples ==
    { [cuisine_type |-> "Italian", meal_type |-> "dinner", degree_of_simplicity |-> "easy"],
      [cuisine_type |-> "Thai", meal_type |-> "lunch", degree_of_simplicity |-> "hard"] }
NoTuple == [cuisine_type |-> "", meal_type |-> "", degree_of_simplicity |-> ""]

\* The SyntheticQuery objects the gateway may return for a tuple, and the
\* lists of them it may reply with: any length up to MaxPerCall, neighbours
\* differing, starting with either query.
QueryA == [query |-> <<"a">>, tuple_reference |-> "Italian: dinner: easy"]
QueryB == [query |-> <<"b", ",", "c">>, tuple_reference |-> "Thai: lunch: hard"]
GatewayQueries ==
    { [j \in 1..m |-> IF (j + o) % 2 = 0 THEN QueryA ELSE QueryB] :
        m \in 0..MaxPerCall, o \in {0, 1} }
\* The SyntheticQuery objects a direct call of the writer may be given: texts
\* with the delimiter, the quote character and line breaks in them.
QuerySamples ==
    { [query |-> <<>>, tuple_reference |-> "r"],
      [query |-> <<"a">>, tuple_reference |-> "r"],
      [query |-> <<"a", ",", "b">>, tuple_reference |-> "r"],
      [query |-> <<"\"", "a">>, tuple_reference |-> "r"],
      [query |-> <<"a", "\n", "b">>, tuple_reference |-> "r"],
      [query |-> <<"\r">>, tuple_reference |-> "r"] }
PlainQuery == [query |-> <<"a">>, tuple_reference |-> "r"]
QuerySets ==
    SeqsUpTo(QuerySamples, MaxQueries)
      \cup { [i \in 1..n |-> PlainQuery] : n \in (MaxQueries + 1)..MaxLongRun }

Unset == [set |-> FALSE, items |-> <<>>]
Value(xs) == [set |-> TRUE, items |-> xs]

\* What one completion() call may end in: a reply that parses into the
\* requested model, a provider failure, or a reply that does not validate.
TupleOutcomes ==
    { [kind |-> "ok", value |-> v] : v \in SeqsUpTo(RecipeDimensionTuples, MaxTuples) }
      \cup { [kind |-> k, value |-> <<>>] : k \in {"provider_error", "schema_error"} }
QueryOutcomes ==
    { [kind |-> "ok", value |-> v] : v \in GatewayQueries }
      \cup { [kind |-> k, value |-> <<>>] : k \in {"provider_error", "schema_error"} }

-----------------------------------------------------------------------------
(* The file system: the output folder, and the files in it and in the      *)
(* working directory.                                                      *)

OUTPUT_FOLDER == "generated_queries"
CWD == "."
Path(d, n) == [dir |-> d, name |-> n]
\* main's two timestamped artifacts, and the writers' default file names.
TuplesPath == Path(OUTPUT_FOLDER, "recipe_dimensions_ts.py")
QueriesPath == Path(OUTPUT_FOLDER, "synthetic_queries_ts.csv")
DefaultTuplesPath == Path(CWD, "recipe_dimensions.py")
DefaultQueriesPath == Path(CWD, "synthetic_queries.csv")
Paths == {TuplesPath, QueriesPath, DefaultTuplesPath, DefaultQueriesPath}

NoFile == [exists |-> FALSE, data |-> <<>>]
OldFile == [exists |-> TRUE, data |-> <<"o", "l", "d">>]

\* The states of the file system: files exist only in directories that exist.
FileSystems ==
    { f \in [folder : {"absent", "dir", "file"}, files : [Paths -> {NoFile, OldFile}]] :
        \A p \in Paths : (p.dir = OUTPUT_FOLDER /\ f.folder # "dir") => f.files[p] = NoFile }

\* open(filename, 'w'): the error it raises, "" when it opens the file.
OpenError(f, p) ==
    IF p.dir = CWD \/ f.folder = "dir" THEN ""
    ELSE IF f.folder = "absent" THEN "FileNotFoundError" ELSE "NotADirectoryError"

\* Mutant of WriteFile: the file is opened in append mode.
WriteFileAppend(f, p, data) ==
    [f EXCEPT !.files[p] = [exists |-> TRUE, data |-> f.files[p].data \o data]]
\* open(filename, 'w') ... write: the file is created or truncated, then holds data.
WriteFile(f, p, data) ==
    [f EXCEPT !.files[p] = [exists |-> TRUE, data |-> data]]

\* os.makedirs(output_folder, exist_ok=True)
MakeDirs(f) ==
    IF f.folder = "file" THEN [fs |-> f, error |-> "FileExistsError"]
    ELSE [fs |-> [f EXCEPT !.folder = "dir"], error |-> ""]

-----------------------------------------------------------------------------
(* The formats of the two artifacts.                                       *)

DigitChars == <<"0", "1", "2", "3", "4", "5", "6", "7", "8", "9">>

\* str(i) of a non-negative integer: its decimal digits.
RECURSIVE IntToStr(_)
IntToStr(n) ==
    IF n < 10 THEN <<DigitChars[n + 1]>>
    ELSE IntToStr(n \div 10) \o <<DigitChars[(n % 10) + 1]>>

\* csv.writer, default dialect (QUOTE_MINIMAL, doublequote, "\r\n"): a field is
\* quoted when it holds the delimiter, the quote character or a character of
\* the line terminator; a quote character inside it is doubled.
CsvSpecial == {",", "\"", "\r", "\n"}
NeedsQuoting(s) == \E i \in 1..Len(s) : s[i] \in CsvSpecial
RECURSIVE DoubleQuotes(_)
DoubleQuotes(s) ==
    IF s = <<>> THEN <<>>
    ELSE (IF Head(s) = "\"" THEN <<"\"", "\"">> ELSE <<Head(s)>>) \o DoubleQuotes(Tail(s))
CsvField(s) == IF NeedsQuoting(s) THEN <<"\"">> \o DoubleQuotes(s) \o <<"\"">> ELSE s
RECURSIVE JoinFields(_)
JoinFields(fields) ==
    IF Len(fields) = 0 THEN <<>>
    ELSE IF Len(fields) = 1 THEN CsvField(fields[1])
    ELSE CsvField(fields[1]) \o <<",">> \o JoinFields(Tail(fields))
\* writer.writerow(fields)
CsvRow(fields) == JoinFields(fields) \o <<"\r", "\n">>

\* Mutant of RenderQueries: enumerate(queries) without its start, ids from 0.
RenderQueriesFromZero(qs) ==
    CsvRow(<< <<"i", "d">>, <<"q", "u", "e", "r", "y">> >>)
      \o Flatten([i \in 1..Len(qs) |-> CsvRow(<<IntToStr(i - 1), qs[i].query>>)])
\* synthetic_query_gen.py:181-188: the header row, then one row per query,
\* numbered from 1 by enumerate(queries, 1).
RenderQueries(qs) ==
    CsvRow(<< <<"i", "d">>, <<"q", "u", "e", "r", "y">> >>)
      \o Flatten([i \in 1..Len(qs) |-> CsvRow(<<IntToStr(i), qs[i].query>>)])

\* synthetic_query_gen.py:151-170: the generated Python source: the docstring
\* and the list opening, one line per tuple, the closing and the usage example.
TupleLine(t) ==
    <<"(", t.cuisine_type, ",", t.meal_type, ",", t.degree_of_simplicity, ")", ",", "\n">>
RenderTuples(ts) ==
    <<"docstring", "recipe_dimensions = [", "\n">>
      \o Flatten([i \in 1..Len(ts) |-> TupleLine(ts[i])])
      \o <<"]", "example usage">>

\* synthetic_query_gen.py:148-175
save_tuples_to_file(f, ts, p) ==
    IF OpenError(f, p) # "" THEN [fs |-> f, error |-> OpenError(f, p)]
    ELSE [fs |-> WriteFile(f, p, RenderTuples(ts)), error |-> ""]

\* synthetic_query_gen.py:177-190
save_queries_to_csv(f, qs, p) ==
    IF OpenError(f, p) # "" THEN [fs |-> f, error |-> OpenError(f, p)]
    ELSE [fs |-> WriteFile(f, p, RenderQueries(qs)), error |-> ""]

-----------------------------------------------------------------------------
(* Re-reading the queries file: csv.reader, default dialect, over the file  *)
(* opened with newline=''.                                                 *)

NewLines == {"\r", "\n"}
ReaderStart == [state |-> "START_RECORD", field |-> <<>>, row |-> <<>>, rows |-> <<>>]
SaveField(st) == [st EXCEPT !.row = Append(@, st.field), !.field = <<>>]
AddChar(st, c) == [st EXCEPT !.field = Append(@, c)]
EmitRow(st) ==
    [state |-> "START_RECORD", field |-> <<>>, row |-> <<>>, rows |-> Append(st.rows, st.row)]

ReaderChar(st, c) ==
    CASE st.state = "START_RECORD" /\ c \in NewLines -> [st EXCEPT !.state = "EAT_CRNL"]
      [] st.state \in {"START_RECORD", "START_FIELD"} /\ c \notin NewLines ->
            IF c = "\"" THEN [st EXCEPT !.state = "IN_QUOTED_FIELD"]
            ELSE IF c = "," THEN [SaveField(st) EXCEPT !.state = "START_FIELD"]
            ELSE [AddChar(st, c) EXCEPT !.state = "IN_FIELD"]
      [] st.state = "START_FIELD" /\ c \in NewLines ->
            [SaveField(st) EXCEPT !.state = "EAT_CRNL"]
      [] st.state = "IN_FIELD" ->
            IF c \in NewLines THEN [SaveField(st) EXCEPT !.state = "EAT_CRNL"]
            ELSE IF c = "," THEN [SaveField(st) EXCEPT !.state = "START_FIELD"]
            ELSE AddChar(st, c)
      [] st.state = "IN_QUOTED_FIELD" ->
            IF c = "\"" THEN [st EXCEPT !.state = "QUOTE_IN_QUOTED_FIELD"]
            ELSE AddChar(st, c)
      [] st.state = "QUOTE_IN_QUOTED_FIELD" ->
            IF c = "\"" THEN [AddChar(st, c) EXCEPT !.state = "IN_QUOTED_FIELD"]
            ELSE IF c = "," THEN [SaveField(st) EXCEPT !.state = "START_FIELD"]
            ELSE IF c \in NewLines THEN [SaveField(st) EXCEPT !.state = "EAT_CRNL"]
            ELSE [AddChar(st, c) EXCEPT !.state = "IN_FIELD"]
      [] st.state = "EAT_CRNL" ->
            IF c \in NewLines THEN st ELSE [st EXCEPT !.state = "ERROR"]
      [] OTHER -> st

\* The end of a line of the file: the record ends unless a quoted field is open.
ReaderEndOfLine(st) ==
    CASE st.state \in {"START_FIELD", "IN_FIELD", "QUOTE_IN_QUOTED_FIELD"} -> EmitRow(SaveField(st))
      [] st.state = "EAT_CRNL" -> EmitRow(st)
      [] OTHER -> st

\* With newline='' a line of the file ends after "\n", after "\r\n" and
\* after a "\r" that no "\n" follows.
LineEndsAt(chars, i) ==
    \/ chars[i] = "\n"
    \/ chars[i] = "\r" /\ (i = Len(chars) \/ chars[i + 1] # "\n")
    \/ i = Len(chars)

\* One character of the file, and the end of the line when it ends one.
ReaderStep(chars, i, st) ==
    IF LineEndsAt(chars, i) THEN ReaderEndOfLine(ReaderChar(st, chars[i]))
    ELSE ReaderChar(st, chars[i])

\* The characters lo..hi, in order, from reader state st; a csv.Error ends the
\* reading (halving the range keeps the evaluation shallow).
RECURSIVE ReaderRange(_, _, _, _)
ReaderRange(chars, lo, hi, st) ==
    IF st.state = "ERROR" \/ lo > hi THEN st
    ELSE IF lo = hi THEN ReaderStep(chars, lo, st)
    ELSE LET mid == (lo + hi) \div 2
         IN  ReaderRange(chars, mid + 1, hi, ReaderRange(chars, lo, mid, st))

\* At the end of the file an open quoted field ends the last record.
ParseCsv(chars) ==
    LET st == ReaderRange(chars, 1, Len(chars), ReaderStart)
    IN  IF st.state = "IN_QUOTED_FIELD" \/ st.field # <<>>
        THEN EmitRow(SaveField(st)).rows
        ELSE st.rows

\* int(text) of a row's id field.
RECURSIVE StrToInt(_)
StrToInt(s) ==
    IF s = <<>> THEN 0
    ELSE 10 * StrToInt(SubSeq(s, 1, Len(s) - 1))
           + (CHOOSE d \in 0..9 : DigitChars[d + 1] = s[Len(s)])

-----------------------------------------------------------------------------
(* synthetic_query_gen.py: the functions                                   *)

\* synthetic_query_gen.py:37-41
load_prompts(y) ==
    IF y.exists THEN [error |-> "", data |-> y.data]
    ELSE [error |-> "FileNotFoundError", data |-> <<>>]

\* synthetic_query_gen.py:43-48: the message of the first record with the
\* subject, a ValueError when there is none.
get_prompt_by_subject(data, subject) ==
    IF \E i \in 1..Len(data) : data[i].subject = subject
    THEN [error |-> "",
          message |-> data[CHOOSE i \in 1..Len(data) :
                             /\ data[i].subject = subject
                             /\ \A j \in 1..(i - 1) : data[j].subject # subject].message]
    ELSE [error |-> "ValueError", message |-> ""]

\* Mutant of call_llm: a failed call is tried once more before it is raised.
call_llm_retry(outcome) ==
    IF outcome.kind = "ok"
    THEN [error |-> "", value |-> outcome.value, completions |-> 1, printed |-> <<>>]
    ELSE [error |-> outcome.kind, value |-> <<>>, completions |-> 2,
          printed |-> << <<"Error calling LLM", outcome.kind>> >>]
\* synthetic_query_gen.py:51-66: one completion() call; the reply is parsed
\* into the requested model; any exception is printed and raised again.
call_llm(outcome) ==
    IF outcome.kind = "ok"
    THEN [error |-> "", value |-> outcome.value, completions |-> 1, printed |-> <<>>]
    ELSE [error |-> outcome.kind, value |-> <<>>, completions |-> 1,
          printed |-> << <<"Error calling LLM", outcome.kind>> >>]

Prompt(k, template, n, t) == [kind |-> k, template |-> template, count |-> n, tuple |-> t]

\* Mutant of generate_recipe_tuples: a failure yields an empty list.
generate_recipe_tuples_empty_on_failure(tuple_prompt, outcome) ==
    [call_llm(outcome) EXCEPT !.error = ""]
\* synthetic_query_gen.py:69-97
generate_recipe_tuples(tuple_prompt, outcome) == call_llm(outcome)

\* Mutants of QueryLoopBody: the list is assigned, not extended; a tuple whose
\* call fails is skipped.
QueryLoopBodyAssign(acc, outcome) ==
    LET r == call_llm(outcome)
    IN  [r EXCEPT !.value = IF r.error = "" THEN r.value ELSE acc]
QueryLoopBodySkipFailed(acc, outcome) ==
    LET r == call_llm(outcome)
    IN  [r EXCEPT !.value = IF r.error = "" THEN acc \o r.value ELSE acc, !.error = ""]
\* synthetic_query_gen.py:105-143, one iteration of the loop over the tuples:
\* value is all_queries after it.
QueryLoopBody(acc, outcome) ==
    LET r == call_llm(outcome)
    IN  [r EXCEPT !.value = IF r.error = "" THEN acc \o r.value ELSE acc]

\* synthetic_query_gen.py:235-236
main_except(con, printed, err) == con \o printed \o << <<"Error in main process", err>> >>

-----------------------------------------------------------------------------
(* synthetic_query_gen.py: main, step by step                              *)

Fail(printed, err) ==
    /\ pc' = "failed"
    /\ error' = err
    /\ console' = main_except(console, printed, err)

\* synthetic_query_gen.py:196-205
MainLoadPrompts ==
    /\ pc = "start"
    /\ LET lp == load_prompts(yaml)
           tp == get_prompt_by_subject(lp.data, "tuple prompt")
           qp == get_prompt_by_subject(lp.data, "synthetic query prompt")
       IN  IF lp.error # "" THEN Fail(<<>>, lp.error) /\ UNCHANGED prompts
           ELSE IF tp.error # "" THEN Fail(<<>>, tp.error) /\ UNCHANGED prompts
           ELSE IF qp.error # "" THEN Fail(<<>>, qp.error) /\ UNCHANGED prompts
           ELSE /\ pc' = "makedirs"
                /\ prompts' = [tuple |-> tp.message, query |-> qp.message]
                /\ UNCHANGED <<error, console>>
    /\ UNCHANGED <<fs, fs0, yaml, tuple_data, all_queries, queries_data, idx,
                   invocations, providerCalls, replies, target, written, readBack>>
    /\ UNCHANGED chatVars

\* synthetic_query_gen.py:207-215
MainMakeDirs ==
    /\ pc = "makedirs"
    /\ LET m == MakeDirs(fs)
       IN  /\ fs' = m.fs
           /\ IF m.error # "" THEN Fail(<<>>, m.error)
              ELSE pc' = "gen_tuples" /\ UNCHANGED <<error, console>>
    /\ UNCHANGED <<fs0, yaml, prompts, tuple_data, all_queries, queries_data, idx,
                   invocations, providerCalls, replies, target, written, readBack>>
    /\ UNCHANGED chatVars

\* synthetic_query_gen.py:217-219
MainGenerateTuples(outcome) ==
    /\ pc = "gen_tuples"
    /\ LET r == generate_recipe_tuples(prompts.tuple, outcome)
       IN  /\ invocations' =
                Append(invocations, Prompt("tuples", prompts.tuple, NUM_TUPLES_TO_GENERATE, NoTuple))
           /\ providerCalls' = providerCalls + r.completions
           /\ IF r.error # "" THEN Fail(r.printed, r.error) /\ UNCHANGED tuple_data
              ELSE /\ pc' = "save_tuples"
                   /\ tuple_data' = Value(r.value)
                   /\ console' = console \o r.printed
                   /\ UNCHANGED error
    /\ UNCHANGED <<fs, fs0, yaml, prompts, all_queries, queries_data, idx,
                   replies, target, written, readBack>>
    /\ UNCHANGED chatVars

\* synthetic_query_gen.py:221-223
MainSaveTuples ==
    /\ pc = "save_tuples"
    /\ LET w == save_tuples_to_file(fs, tuple_data.items, TuplesPath)
       IN  /\ fs' = w.fs
           /\ IF w.error # "" THEN Fail(<<>>, w.error)
              ELSE pc' = "gen_queries" /\ UNCHANGED <<error, console>>
    /\ target' = TuplesPath
    /\ written' = RenderTuples(tuple_data.items)
    /\ UNCHANGED <<fs0, yaml, prompts, tuple_data, all_queries, queries_data, idx,
                   invocations, providerCalls, replies, readBack>>
    /\ UNCHANGED chatVars

\* synthetic_query_gen.py:100-143, called at 227: the next tuple's call.
MainGenerateQueries(outcome) ==
    /\ pc = "gen_queries"
    /\ idx < Len(tuple_data.items)
    /\ LET r == QueryLoopBody(IF idx = 0 THEN <<>> ELSE all_queries, outcome)
       IN  /\ invocations' =
                Append(invocations,
                       Prompt("queries", prompts.query, NNUM_QUERIES_PER_TUPLE,
                              tuple_data.items[idx + 1]))
           /\ providerCalls' = providerCalls + r.completions
           /\ all_queries' = r.value
           /\ IF r.error # "" THEN Fail(r.printed, r.error) /\ UNCHANGED <<idx, replies>>
              ELSE /\ idx' = idx + 1
                   /\ replies' = Append(replies, outcome.value)
                   /\ console' = console \o r.printed
                   /\ UNCHANGED <<pc, error>>
    /\ UNCHANGED <<fs, fs0, yaml, prompts, tuple_data, queries_data,
                   target, written, readBack>>
    /\ UNCHANGED chatVars

\* synthetic_query_gen.py:144-145: the loop is over, the list is returned.
MainQueriesReturn ==
    /\ pc = "gen_queries"
    /\ idx = Len(tuple_data.items)
    /\ queries_data' = Value(IF idx = 0 THEN <<>> ELSE all_queries)
    /\ pc' = "save_queries"
    /\ UNCHANGED <<fs, fs0, yaml, prompts, tuple_data, all_queries, idx, invocations,
                   providerCalls, replies, console, error, target, written, readBack>>
    /\ UNCHANGED chatVars

\* synthetic_query_gen.py:229-234
MainSaveQueries ==
    /\ pc = "save_queries"
    /\ LET w == save_queries_to_csv(fs, queries_data.items, QueriesPath)
       IN  /\ fs' = w.fs
           /\ IF w.error # "" THEN Fail(<<>>, w.error)
              ELSE pc' = "done" /\ UNCHANGED <<error, console>>
    /\ target' = QueriesPath
    /\ written' = RenderQueries(queries_data.items)
    /\ UNCHANGED <<fs0, yaml, prompts, tuple_data, all_queries, queries_data, idx,
                   invocations, providerCalls, replies, readBack>>
    /\ UNCHANGED chatVars

-----------------------------------------------------------------------------
(* The writers called on their own, with any data and any target path.      *)

CallSaveTuples(ts, p) ==
    /\ pc = "call"
    /\ LET w == save_tuples_to_file(fs, ts, p)
       IN  fs' = w.fs /\ error' = w.error
    /\ tuple_data' = Value(ts)
    /\ target' = p
    /\ written' = RenderTuples(ts)
    /\ pc' = "called"
    /\ UNCHANGED <<fs0, yaml, prompts, all_queries, queries_data, idx, invocations,
                   providerCalls, replies, console, readBack>>
    /\ UNCHANGED chatVars

CallSaveQueries(qs, p) ==
    /\ pc = "call"
    /\ LET w == save_queries_to_csv(fs, qs, p)
       IN  fs' = w.fs /\ error' = w.error
    /\ queries_data' = Value(qs)
    /\ target' = p
    /\ written' = RenderQueries(qs)
    /\ pc' = "called"
    /\ UNCHANGED <<fs0, yaml, prompts, tuple_data, all_queries, idx, invocations,
                   providerCalls, replies, console, readBack>>
    /\ UNCHANGED chatVars

\* The queries file is read back with csv.reader.
ReadBack ==
    /\ pc \in {"done", "called"}
    /\ error = ""
    /\ queries_data.set
    /\ fs.files[target].exists
    /\ readBack' = ParseCsv(fs.files[target].data)
    /\ pc' = "read"
    /\ UNCHANGED <<fs, fs0, yaml, prompts, tuple_data, all_queries, queries_data, idx,
                   invocations, providerCalls, replies, console, error, target, written>>
    /\ UNCHANGED chatVars

-----------------------------------------------------------------------------
(* The specifications.                                                     *)

NoYaml == [exists |-> FALSE, data |-> <<>>]
TuplePrompt == [subject |-> "tuple prompt", message |-> "T"]
QueryPrompt == [subject |-> "synthetic query prompt", message |-> "Q"]
\* The prompt file is a sequence of {subject, message} records. The prompt
\* files of the model: missing, lacking a subject, and complete (the query
\* prompt first, and two records with the tuple prompt's subject).
YamlFiles ==
    {NoYaml} \cup
    { [exists |-> TRUE, data |-> d] :
        d \in { <<>>, <<TuplePrompt>>, <<QueryPrompt>>,
                <<QueryPrompt, TuplePrompt, [subject |-> "tuple prompt", message |-> "T2"]>> } }

GenInit ==
    /\ pc \in {"start", "call"}
    /\ fs \in FileSystems
    /\ pc = "start" =>
          /\ fs.files[DefaultTuplesPath] = NoFile /\ fs.files[DefaultQueriesPath] = NoFile
          /\ fs.files[TuplesPath] = fs.files[QueriesPath]
    /\ fs0 = fs
    /\ yaml \in YamlFiles
    /\ pc = "call" => yaml = NoYaml
    /\ prompts = [tuple |-> "", query |-> ""]
    /\ tuple_data = Unset
    /\ all_queries = <<>>
    /\ queries_data = Unset
    /\ idx = 0
    /\ invocations = <<>>
    /\ providerCalls = 0
    /\ replies = <<>>
    /\ console = <<>>
    /\ error = ""
    /\ target = DefaultQueriesPath
    /\ written = <<>>
    /\ readBack = <<>>

GenIdle ==
    /\ pc = "idle"
    /\ fs = [folder |-> "absent", files |-> [p \in Paths |-> NoFile]]
    /\ fs0 = fs
    /\ yaml = NoYaml
    /\ prompts = [tuple |-> "", query |-> ""]
    /\ tuple_data = Unset
    /\ all_queries = <<>>
    /\ queries_data = Unset
    /\ idx = 0
    /\ invocations = <<>>
    /\ providerCalls = 0
    /\ replies = <<>>
    /\ console = <<>>
    /\ error = ""
    /\ target = DefaultQueriesPath
    /\ written = <<>>
    /\ readBack = <<>>

GenNext ==
    \/ MainLoadPrompts
    \/ MainMakeDirs
    \/ \E outcome \in TupleOutcomes : MainGenerateTuples(outcome)
    \/ MainSaveTuples
    \/ \E outcome \in QueryOutcomes : MainGenerateQueries(outcome)
    \/ MainQueriesReturn
    \/ MainSaveQueries
    \/ \E ts \in SeqsUpTo(RecipeDimensionTuples, MaxTuples), p \in Paths : CallSaveTuples(ts, p)
    \/ \E qs \in QuerySets, p \in Paths : CallSaveQueries(qs, p)
    \/ ReadBack

\* The conversation pipeline: a conversation of up to MaxCalls turns.
InitChat == ChatInit /\ GenIdle
SpecChat == InitChat /\ [][ChatNext]_vars
\* The generator: a run of main, or one direct call of a writer.
InitGen == GenInit /\ ChatIdle
SpecGen == InitGen /\ [][GenNext]_vars

-----------------------------------------------------------------------------
(* Properties of the conversation pipeline (SpecChat).                     *)

Persona == Msg("system", SYSTEM_PROMPT)
StartsWithSystem(c) == c # <<>> /\ c[1].role = "system"
\* The history the last call was given, as it was when the call was made.
Input == preHeap[messages]
Output == heap[updated]
AllWhitespace(s) == \A i \in 1..Len(s) : s[i] \in Whitespace
\* c is raw without the whitespace at its two ends.
IsTrimOf(c, raw) ==
    /\ c # <<>> => (c[1] \notin Whitespace /\ c[Len(c)] \notin Whitespace)
    /\ \E a \in 0..Len(raw) :
          /\ a + Len(c) <= Len(raw)
          /\ SubSeq(raw, a + 1, a + Len(c)) = c
          /\ AllWhitespace(SubSeq(raw, 1, a))
          /\ AllWhitespace(SubSeq(raw, a + Len(c) + 1, Len(raw)))
IsReply(m) == m.role = "assistant" /\ IsTrimOf(m.content, rawReply)

\* C1: when the history is empty or does not start with a system message,
\* the call returns the persona system message, then the input messages in
\* their order, then one assistant message carrying the (trimmed) reply: the
\* output is two longer than the input.
C1_PersonaPrepended ==
    (status = "returned" /\ ~StartsWithSystem(Input)) =>
        /\ Len(Output) = Len(Input) + 2
        /\ Output[1] = Persona
        /\ SubSeq(Output, 2, Len(Input) + 1) = Input
        /\ IsReply(Output[Len(Output)])
        /\ sent = <<Persona>> \o Input

C1_Witness ==
    /\ status = "returned"
    /\ Input # <<>>
    /\ Input[1].role = "user"
    /\ Output[1] = Persona
    /\ Len(Output) = Len(Input) + 2
    /\ Output[Len(Output)] = Msg("assistant", <<"o", " ", "k">>)

\* C2: when the history already starts with a system message, nothing is
\* injected: the conversation sent to the model is the input, and the output
\* is the input followed by one assistant message, the caller's system
\* message still first.
C2_NoDuplicateSystem ==
    (status \in {"returned", "raised"} /\ StartsWithSystem(Input)) =>
        /\ sent = Input
        /\ status = "returned" =>
              /\ Len(Output) = Len(Input) + 1
              /\ SubSeq(Output, 1, Len(Input)) = Input
              /\ Output[1] = Input[1]
              /\ IsReply(Output[Len(Output)])

C2_Witness ==
    /\ status = "returned"
    /\ Len(Input) = 2
    /\ Input[1] = Msg("system", <<"c", "u", "s", "t", "o", "m">>)
    /\ Input[2].role = "system"
    /\ Len(Output) = 3
    /\ Output[1] = Input[1]

\* C3: the call never changes a list that existed before it, the caller's
\* history among them, whether or not current_messages is that very list;
\* the list it returns is a new one: the conversation sent to the model plus
\* one trailing assistant message.
C3_HistoryNotMutated ==
    (status \in {"returned", "raised"}) =>
        /\ \A r \in DOMAIN preHeap : heap[r] = preHeap[r]
        /\ heap[messages] = Input
        /\ status = "returned" =>
              /\ updated \notin DOMAIN preHeap
              /\ updated # messages
              /\ Len(Output) = Len(sent) + 1
              /\ SubSeq(Output, 1, Len(sent)) = sent
              /\ Output[Len(Output)].role = "assistant"

C3_Witness ==
    /\ status = "returned"
    /\ StartsWithSystem(Input)
    /\ sent = heap[messages]
    /\ Len(heap[messages]) = 2
    /\ updated # messages
    /\ Len(Output) = 3

ExactlyOneSystemAtFront(c) ==
    /\ c # <<>>
    /\ c[1] = Persona
    /\ \A i \in 2..Len(c) : c[i].role # "system"
NoSystemIn(c) == \A i \in 1..Len(c) : c[i].role # "system"

\* C10: in a conversation that starts from a history without a system
\* message and goes on from each returned conversation plus user messages,
\* every conversation sent to the model and every conversation returned has
\* exactly one system message, the persona, at its front; the persona is
\* injected on the turn made with the starting history only, and every
\* later turn returns its input plus one message.
C10_OneSystemAcrossTurns ==
    (NoSystemIn(start) /\ status \in {"returned", "raised"}) =>
        /\ ExactlyOneSystemAtFront(sent)
        /\ status = "returned" => ExactlyOneSystemAtFront(Output)
        /\ messages = 1 => (Input = start /\ Len(sent) = Len(Input) + 1)
        /\ messages # 1 =>
              /\ sent = Input
              /\ status = "returned" =>
                    (Len(Output) = Len(Input) + 1 /\ SubSeq(Output, 1, Len(Input)) = Input)

C10_Witness ==
    /\ NoSystemIn(start)
    /\ Len(start) = 2
    /\ calls = 2
    /\ messages # 1
    /\ status = "returned"
    /\ Len(Output) = 6
    /\ Output[5].role = "user"
    /\ ExactlyOneSystemAtFront(Output)

-----------------------------------------------------------------------------
(* Properties of the generator run and of the writers (SpecGen).           *)

InMain == pc \in {"start", "makedirs", "gen_tuples", "save_tuples", "gen_queries",
                  "save_queries", "done", "failed"}
GatewayErrors == {"provider_error", "schema_error"}
\* call_llm has reported a failed call on the console.
GatewayFailed == \E i \in 1..Len(console) : console[i][1] = "Error calling LLM"
LastInvocation == invocations[Len(invocations)]
IsQueryCall(inv) == inv.kind = "queries"
QueryInvocations == SelectSeq(invocations, IsQueryCall)
\* The run has stopped: no step of it can be taken.
Stopped == ~ENABLED GenNext

RECURSIVE TotalLen(_)
TotalLen(ss) == IF ss = <<>> THEN 0 ELSE Len(Head(ss)) + TotalLen(Tail(ss))

\* C4: generate_synthetic_queries makes one gateway call per tuple, in the
\* order of the tuples and one after the other, and returns the replies'
\* queries concatenated in that order; K tuples answered with M queries each
\* give K gateway calls and K*M queries.
C4_OneCallPerTupleInOrder ==
    (pc \in {"gen_queries", "save_queries", "done"}) =>
        LET K == Len(tuple_data.items)
            acc == IF pc = "gen_queries" THEN all_queries ELSE queries_data.items
        IN  /\ Len(QueryInvocations) = idx
            /\ Len(replies) = idx
            /\ providerCalls = 1 + idx
            /\ \A i \in 1..idx :
                  /\ QueryInvocations[i].tuple = tuple_data.items[i]
                  /\ QueryInvocations[i].template = "Q"
                  /\ QueryInvocations[i].count = NNUM_QUERIES_PER_TUPLE
            /\ idx > 0 =>
                  /\ Len(acc) = TotalLen(replies)
                  /\ \A i \in 1..idx : \A j \in 1..Len(replies[i]) :
                        acc[TotalLen(SubSeq(replies, 1, i - 1)) + j] = replies[i][j]
            /\ pc # "gen_queries" =>
                  /\ idx = K
                  /\ queries_data.set
                  /\ K = 0 => acc = <<>>
                  /\ \A M \in 0..MaxPerCall :
                        (\A i \in 1..K : Len(replies[i]) = M) => Len(acc) = K * M

C4_Witness ==
    /\ pc = "done"
    /\ Len(tuple_data.items) = 2
    /\ tuple_data.items[1] # tuple_data.items[2]
    /\ Len(QueryInvocations) = 2
    /\ Len(replies[1]) = 2 /\ Len(replies[2]) = 2
    /\ replies[1] # replies[2]
    /\ Len(queries_data.items) = 4

\* C5: when the gateway call for a tuple fails, the run is over at once: no
\* call is made for a later tuple, no QuerySet is returned, the queries file
\* is not written, and no further step is taken; a run ends with all its
\* steps done or stopped at its first failure.
C5_QueryFailureAbortsRun ==
    /\ (GatewayFailed /\ IsQueryCall(LastInvocation)) =>
          /\ pc = "failed"
          /\ error \in GatewayErrors
          /\ Len(QueryInvocations) = idx + 1
          /\ LastInvocation.tuple = tuple_data.items[idx + 1]
          /\ queries_data = Unset
          /\ fs.files[QueriesPath] = fs0.files[QueriesPath]
          /\ Stopped
    /\ pc = "failed" => (error # "" /\ Stopped)
    /\ pc = "done" =>
          /\ error = "" /\ console = <<>>
          /\ idx = Len(tuple_data.items)
          /\ fs.files[TuplesPath].exists /\ fs.files[QueriesPath].exists

C5_Witness ==
    /\ pc = "failed"
    /\ Len(tuple_data.items) = 2
    /\ idx = 1
    /\ Len(all_queries) = 2
    /\ Len(QueryInvocations) = 2
    /\ ~fs.files[QueriesPath].exists
    /\ fs.files[TuplesPath].exists

\* C6: when the gateway call of generate_recipe_tuples fails, the error leaves
\* generate_recipe_tuples and ends the run: no tuples are kept, neither
\* artifact file is written (a file that did not exist does not exist
\* afterwards) and no query-generation call is made.
C6_TupleFailureWritesNothing ==
    (InMain /\ GatewayFailed /\ ~IsQueryCall(LastInvocation)) =>
        /\ pc = "failed"
        /\ error \in GatewayErrors
        /\ tuple_data = Unset
        /\ fs.files = fs0.files
        /\ Len(invocations) = 1
        /\ QueryInvocations = <<>>
        /\ queries_data = Unset
        /\ Stopped

C6_Witness ==
    /\ pc = "failed"
    /\ error = "schema_error"
    /\ Len(invocations) = 1
    /\ fs0.folder = "absent"
    /\ ~fs.files[TuplesPath].exists
    /\ ~fs.files[QueriesPath].exists

MissingSubject(y) ==
    \E subject \in {"tuple prompt", "synthetic query prompt"} :
        \A i \in 1..Len(y.data) : y.data[i].subject # subject

\* C7: every error of the run -- a missing prompt subject, a provider error, a
\* reply that does not validate -- reaches main, which prints it and ends the
\* run, with no retry and no recovery; call_llm makes one provider call per
\* invocation, and prints and raises again the failure of that call.
C7_ErrorsReachMain ==
    InMain =>
        /\ providerCalls = Len(invocations)
        /\ GatewayFailed => (pc = "failed" /\ error \in GatewayErrors)
        /\ (pc # "start" /\ yaml.exists /\ MissingSubject(yaml)) =>
              (pc = "failed" /\ error = "ValueError" /\ invocations = <<>>)
        /\ pc = "failed" =>
              /\ error # ""
              /\ console[Len(console)] = <<"Error in main process", error>>
              /\ error \in GatewayErrors =>
                    /\ Len(console) = 2
                    /\ console[1] = <<"Error calling LLM", error>>
              /\ error \notin GatewayErrors => Len(console) = 1
              /\ Stopped
        /\ pc # "failed" => (error = "" /\ console = <<>>)

C7_Witness ==
    /\ pc = "failed"
    /\ error = "provider_error"
    /\ Len(invocations) = 3
    /\ providerCalls = 3
    /\ console = << <<"Error calling LLM", "provider_error">>,
                    <<"Error in main process", "provider_error">> >>

IsNumber(s) == s # <<>> /\ \A i \in 1..Len(s) : \E d \in 1..10 : DigitChars[d] = s[i]

\* C8: the queries file read back holds the header row id,query and then one
\* row per query of the QuerySet: the ids 1..n in increasing order and the
\* query texts in the same order, two fields a row (tuple_reference is not
\* written).
C8_CsvRoundTrip ==
    pc = "read" =>
        LET qs == queries_data.items
        IN  /\ Len(readBack) = Len(qs) + 1
            /\ readBack[1] = << <<"i", "d">>, <<"q", "u", "e", "r", "y">> >>
            /\ \A i \in 1..Len(qs) :
                  /\ Len(readBack[i + 1]) = 2
                  /\ IsNumber(readBack[i + 1][1])
                  /\ StrToInt(readBack[i + 1][1]) = i
                  /\ readBack[i + 1][2] = qs[i].query

C8_Witness ==
    /\ pc = "read"
    /\ Len(queries_data.items) = 2
    /\ queries_data.items[1].query = <<"a", "\n", "b">>
    /\ queries_data.items[2].query = <<"\"", "a">>
    /\ Len(readBack) = 3
    /\ readBack[3][2] = <<"\"", "a">>

ParentExisted == target.dir = CWD \/ fs0.folder = "dir"

\* C9 as stated: a writer called with any target path succeeds, whether or
\* not the parent directory or the file existed before.
C9_WritersCreateParents ==
    (pc = "called" /\ fs0.folder # "file") =>
        /\ error = ""
        /\ fs.files[target] = [exists |-> TRUE, data |-> written]

\* C9, amended: the writers overwrite any existing file at the target path
\* but create no directory: with the parent directory present the call
\* succeeds and the file holds exactly the new content, nothing else changing;
\* without it the call fails and creates nothing. In a run it is main that
\* creates the output folder before it calls the writers, so both its writes
\* succeed, whether or not the folder or the files existed before.
C9_WritersOverwriteOnly ==
    /\ pc = "called" =>
          /\ ParentExisted =>
                /\ error = ""
                /\ fs.files[target] = [exists |-> TRUE, data |-> written]
                /\ \A p \in Paths \ {target} : fs.files[p] = fs0.files[p]
          /\ ~ParentExisted =>
                /\ error = (IF fs0.folder = "absent" THEN "FileNotFoundError"
                            ELSE "NotADirectoryError")
                /\ fs.files = fs0.files
          /\ fs.folder = fs0.folder
    /\ pc \in {"gen_tuples", "save_tuples", "gen_queries", "save_queries", "done"} =>
          (fs.folder = "dir" /\ fs0.folder # "file")
    /\ pc \in {"gen_queries", "save_queries", "done"} =>
          fs.files[TuplesPath] = [exists |-> TRUE, data |-> RenderTuples(tuple_data.items)]
    /\ pc = "done" =>
          fs.files[QueriesPath] = [exists |-> TRUE, data |-> RenderQueries(queries_data.items)]

C9_Witness ==
    /\ pc = "called"
    /\ fs0.folder = "absent"
    /\ target.dir = OUTPUT_FOLDER
    /\ error = "FileNotFoundError"
    /\ fs = fs0
    /\ written # <<>>

=============================================================================
